---------------------------- MODULE Spec2Model ----------------------------
(***************************************************************************)
(* Model of the marvelsnapdeck crate (src/src/lib.rs): a DeckList value,   *)
(* its setters and getters, and the two conversions into_code / from_code. *)
(*                                                                         *)
(* Text is modelled as what it is in memory: a sequence of bytes (0..255). *)
(* A Rust String is a valid UTF-8 byte sequence; the argument of from_code *)
(* is any byte sequence (T: AsRef<[u8]>).                                  *)
(***************************************************************************)
EXTENDS Integers, Sequences, FiniteSets

VARIABLES list,   \* the DeckList the caller holds: [name, cards]
          op,     \* the last call made
          arg,    \* the argument of the last call
          ret,    \* what the last call returned: [kind, val]
          last,   \* the arguments of the most recent set_name and set_cards
          doc,    \* how the argument of from_code was put together
          coded   \* the latest into_code the caller remembers: the deck it
                  \* was called on and what it returned

vars == <<list, op, arg, ret, last, doc, coded>>

(***************************************************************************)
(* Bounds of the model.                                                    *)
(***************************************************************************)
MaxCards == 2     \* longest card sequence handed to set_cards
MaxTextLen == 4   \* longest free text handed to from_code

(***************************************************************************)
(* Small helpers on byte sequences.                                        *)
(***************************************************************************)
Pow2(n) == 2 ^ n

RECURSIVE Flatten(_)
Flatten(ss) ==
    IF Len(ss) = 0 THEN <<>>
    ELSE IF Len(ss) = 1 THEN ss[1]
    ELSE Flatten(SubSeq(ss, 1, Len(ss) \div 2))
            \o Flatten(SubSeq(ss, Len(ss) \div 2 + 1, Len(ss)))

\* The byte at 1-based index i, or -1 past the end (peek() returning None).
Peek(s, i) == IF i >= 1 /\ i <= Len(s) THEN s[i] ELSE -1

(***************************************************************************)
(* base64::engine::general_purpose::STANDARD_NO_PAD                        *)
(* alphabet A-Z a-z 0-9 + /, no padding written, padding refused on        *)
(* decode, non-zero trailing bits refused on decode.                       *)
(***************************************************************************)
Symbol(v) ==
    IF v < 26 THEN 65 + v
    ELSE IF v < 52 THEN 97 + (v - 26)
    ELSE IF v < 62 THEN 48 + (v - 52)
    ELSE IF v = 62 THEN 43
    ELSE 47

\* The 6-bit value of a symbol, or 255 (the engine's INVALID_VALUE).
SymbolValue(b) ==
    IF b >= 65 /\ b <= 90 THEN b - 65
    ELSE IF b >= 97 /\ b <= 122 THEN b - 97 + 26
    ELSE IF b >= 48 /\ b <= 57 THEN b - 48 + 52
    ELSE IF b = 43 THEN 62
    ELSE IF b = 47 THEN 63
    ELSE 255

\* B64Encode as an engine that pads would write it (STANDARD in place of
\* STANDARD_NO_PAD): '=' up to a multiple of four symbols.
B64EncodePadded(bytes) ==
    LET n == Len(bytes)
        outLen == (n * 8 + 5) \div 6
        Sextet(i) ==
            LET off == 6 * (i - 1)
                j   == off \div 8 + 1
                hi  == bytes[j]
                lo  == IF j + 1 <= n THEN bytes[j + 1] ELSE 0
                w   == hi * 256 + lo
            IN  (w \div Pow2(10 - (off % 8))) % 64
    IN  [i \in 1..outLen |-> Symbol(Sextet(i))]
        \o [i \in 1..((4 - (outLen % 4)) % 4) |-> 61]

\* Engine::encode with encode_padding = false.
B64Encode(bytes) ==
    LET n == Len(bytes)
        outLen == (n * 8 + 5) \div 6
        Sextet(i) ==
            LET off == 6 * (i - 1)
                j   == off \div 8 + 1
                hi  == bytes[j]
                lo  == IF j + 1 <= n THEN bytes[j + 1] ELSE 0
                w   == hi * 256 + lo
            IN  (w \div Pow2(10 - (off % 8))) % 64
    IN  [i \in 1..outLen |-> Symbol(Sextet(i))]

\* let x = e; F(x)
With(e, F(_)) == F(e)

\* The bytes the first n symbols of code stand for, [ok, val]: every
\* symbol must be of the alphabet, n must not be 1 modulo 4, and the bits
\* of the last symbol that belong to no byte must be zero.
B64DecodeSymbols(code, n) ==
    With([i \in 1..n |-> SymbolValue(code[i])], LAMBDA vals :
        LET badSymbol == \E i \in 1..n : vals[i] = 255
            badLength == n % 4 = 1
            badTrailing ==
                \/ n % 4 = 2 /\ vals[n] % 16 # 0
                \/ n % 4 = 3 /\ vals[n] % 4 # 0
            outLen == (n * 6) \div 8
            Byte(k) ==
                LET off == 8 * (k - 1)
                    i   == off \div 6 + 1
                    c   == IF i + 2 <= n THEN vals[i + 2] ELSE 0
                    w   == vals[i] * 4096 + vals[i + 1] * 64 + c
                IN  (w \div Pow2(10 - (off % 6))) % 256
        IN  IF badSymbol \/ badLength THEN [ok |-> FALSE, val |-> <<>>]
            ELSE IF badTrailing THEN [ok |-> FALSE, val |-> <<>>]
            ELSE [ok |-> TRUE, val |-> [k \in 1..outLen |-> Byte(k)]])

\* B64Decode as an engine indifferent to padding would do it: up to two
\* trailing '=' are dropped before decoding.
B64DecodeLenient(code) ==
    LET n == Len(code)
    IN  IF n >= 2 /\ code[n] = 61 /\ code[n - 1] = 61
        THEN B64DecodeSymbols(code, n - 2)
        ELSE IF n >= 1 /\ code[n] = 61 THEN B64DecodeSymbols(code, n - 1)
        ELSE B64DecodeSymbols(code, n)

\* Engine::decode with DecodePaddingMode::RequireNone and
\* decode_allow_trailing_bits = false: [ok, val].
B64Decode(code) == B64DecodeSymbols(code, Len(code))

(***************************************************************************)
(* serde_json::to_string for DeckList / Card (serde derive, lib.rs 59-74). *)
(* The compact formatter writes no whitespace; the struct's fields are     *)
(* written in declaration order under their renamed keys.                  *)
(***************************************************************************)
KeyName == <<78, 97, 109, 101>>                                  \* "Name"
KeyCards == <<67, 97, 114, 100, 115>>                             \* "Cards"
KeyCardDefId == <<67, 97, 114, 100, 68, 101, 102, 73, 100>>   \* "CardDefId"

HexDigit(v) == IF v < 10 THEN 48 + v ELSE 97 + (v - 10)

\* EscapeByte as a writer that escapes nothing would do it.
EscapeByteRaw(b) == <<b>>

\* serde_json's ESCAPE table and write_char_escape: what one byte of a
\* string is written as.
EscapeByte(b) ==
    IF b = 34 THEN <<92, 34>>
    ELSE IF b = 92 THEN <<92, 92>>
    ELSE IF b = 8 THEN <<92, 98>>
    ELSE IF b = 9 THEN <<92, 116>>
    ELSE IF b = 10 THEN <<92, 110>>
    ELSE IF b = 12 THEN <<92, 102>>
    ELSE IF b = 13 THEN <<92, 114>>
    ELSE IF b < 32 THEN <<92, 117, 48, 48, HexDigit(b \div 16), HexDigit(b % 16)>>
    ELSE <<b>>

\* format_escaped_str: the quoted JSON string of a Rust String.
FormatEscapedStr(str) ==
    <<34>> \o Flatten([i \in 1..Len(str) |-> EscapeByte(str[i])]) \o <<34>>

\* One key/value member of a JSON object: "key":value
Member(key, value) == <<34>> \o key \o <<34, 58>> \o value

JoinComma(items) ==
    Flatten([i \in 1..Len(items) |->
                IF i = 1 THEN items[i] ELSE <<44>> \o items[i]])

\* Serialize for Card: {"CardDefId":"..."}
SerializeCard(card) ==
    <<123>> \o Member(KeyCardDefId, FormatEscapedStr(card.name)) \o <<125>>

\* Serialize for Vec<Card>: [card,card,...]
SerializeCards(cs) ==
    <<91>> \o JoinComma([i \in 1..Len(cs) |-> SerializeCard(cs[i])]) \o <<93>>

\* Serialize for DeckList: {"Name":"...","Cards":[...]}
SerializeDeckList(self) ==
    <<123>> \o Member(KeyName, FormatEscapedStr(self.name)) \o <<44>>
            \o Member(KeyCards, SerializeCards(self.cards)) \o <<125>>

\* to_string as a serializer that refuses text outside ASCII would do it.
to_string_ascii(self) ==
    [ok |-> \A i \in 1..Len(self.name) : self.name[i] < 128,
     val |-> SerializeDeckList(self)]

\* serde_json::to_string: [ok, val]. Writing strings and sequences into a
\* Vec<u8> has no failing path.
to_string(self) == [ok |-> TRUE, val |-> SerializeDeckList(self)]

(***************************************************************************)
(* serde_json::from_slice::<DeckList>: the reader (SliceRead).             *)
(* A parse step returns [ok, pos, val]: pos is the index of the next       *)
(* unread byte. Every error of the parser ends the parse; which ErrorCode  *)
(* it carries is dropped by from_code's map_err(|_| ...) (lib.rs 170).     *)
(***************************************************************************)
Fail == [ok |-> FALSE, pos |-> 0, val |-> <<>>]
Done(p, v) == [ok |-> TRUE, pos |-> p, val |-> v]

\* let r = e?; F(r): the error of a failed step is returned at once.
AndThen(e, F(_)) == IF e.ok THEN F(e) ELSE Fail

IsWhitespace(b) == b = 32 \/ b = 10 \/ b = 9 \/ b = 13
IsDigit(b) == b >= 48 /\ b <= 57

\* Deserializer::parse_whitespace: the index of the next byte that is not
\* ' ', '\n', '\t' or '\r'.
RECURSIVE parse_whitespace(_, _)
parse_whitespace(s, i) ==
    IF i <= Len(s) /\ IsWhitespace(s[i]) THEN parse_whitespace(s, i + 1) ELSE i

HexValue(b) ==
    IF b >= 48 /\ b <= 57 THEN b - 48
    ELSE IF b >= 97 /\ b <= 102 THEN b - 97 + 10
    ELSE IF b >= 65 /\ b <= 70 THEN b - 65 + 10
    ELSE -1

\* SliceRead::decode_hex_escape: the value of the four hex digits at i, or
\* -1 (too few bytes left, or a byte that is no hex digit).
decode_hex_escape(s, i) ==
    IF i + 3 > Len(s) THEN -1
    ELSE IF \E k \in 0..3 : HexValue(s[i + k]) = -1 THEN -1
    ELSE HexValue(s[i]) * 4096 + HexValue(s[i + 1]) * 256
         + HexValue(s[i + 2]) * 16 + HexValue(s[i + 3])

\* char::encode_utf8
EncodeUtf8(c) ==
    IF c < 128 THEN <<c>>
    ELSE IF c < 2048 THEN <<192 + (c \div 64), 128 + (c % 64)>>
    ELSE IF c < 65536 THEN
        <<224 + (c \div 4096), 128 + ((c \div 64) % 64), 128 + (c % 64)>>
    ELSE <<240 + (c \div 262144), 128 + ((c \div 4096) % 64),
           128 + ((c \div 64) % 64), 128 + (c % 64)>>

IsCont(b) == b >= 128 /\ b <= 191

\* The length of the UTF-8 sequence a byte leads, 0 for a byte that leads
\* none (a continuation byte, 0xC0, 0xC1, 0xF5 and above).
Utf8Width(b) ==
    IF b < 128 THEN 1
    ELSE IF b >= 194 /\ b <= 223 THEN 2
    ELSE IF b >= 224 /\ b <= 239 THEN 3
    ELSE IF b >= 240 /\ b <= 244 THEN 4
    ELSE 0

\* The sequence led by bs[i] is whole and in range: no overlong form, no
\* surrogate, nothing above U+10FFFF.
WellFormedAt(bs, i) ==
    LET b0 == bs[i]
        b1 == Peek(bs, i + 1)
        w  == Utf8Width(b0)
    IN  /\ w >= 1
        /\ i + w - 1 <= Len(bs)
        /\ w >= 2 =>
              IF b0 = 224 THEN b1 >= 160 /\ b1 <= 191
              ELSE IF b0 = 237 THEN b1 >= 128 /\ b1 <= 159
              ELSE IF b0 = 240 THEN b1 >= 144 /\ b1 <= 191
              ELSE IF b0 = 244 THEN b1 >= 128 /\ b1 <= 143
              ELSE IsCont(b1)
        /\ \A k \in 2..(w - 1) : IsCont(bs[i + k])

\* core::str::from_utf8 succeeding on bs: every byte leads a well-formed
\* sequence or is a continuation byte of the sequence led 1 to 3 bytes
\* before it.
ValidUtf8(bs) ==
    \A i \in 1..Len(bs) :
        IF IsCont(bs[i])
        THEN \E d \in 1..3 :
                /\ i - d >= 1
                /\ Utf8Width(bs[i - d]) > d
                /\ \A k \in 1..(d - 1) : IsCont(bs[i - k])
        ELSE WellFormedAt(bs, i)

\* parse_unicode_escape, after "\u": a code point outside the surrogates,
\* or a leading surrogate followed by an escaped trailing one.
parse_unicode_escape(s, i) ==
    With(decode_hex_escape(s, i), LAMBDA n1 :
        IF n1 = -1 THEN Fail
        ELSE IF n1 >= 56320 /\ n1 <= 57343 THEN Fail
        ELSE IF n1 >= 55296 /\ n1 <= 56319 THEN
            IF Peek(s, i + 4) # 92 \/ Peek(s, i + 5) # 117 THEN Fail
            ELSE With(decode_hex_escape(s, i + 6), LAMBDA n2 :
                IF n2 < 56320 \/ n2 > 57343 THEN Fail
                ELSE Done(i + 10,
                          EncodeUtf8((n1 - 55296) * 1024 + (n2 - 56320) + 65536)))
        ELSE Done(i + 4, EncodeUtf8(n1)))

\* parse_escape, after the backslash.
parse_escape(s, i) ==
    LET ch == Peek(s, i)
    IN  IF ch = 34 THEN Done(i + 1, <<34>>)
        ELSE IF ch = 92 THEN Done(i + 1, <<92>>)
        ELSE IF ch = 47 THEN Done(i + 1, <<47>>)
        ELSE IF ch = 98 THEN Done(i + 1, <<8>>)
        ELSE IF ch = 102 THEN Done(i + 1, <<12>>)
        ELSE IF ch = 110 THEN Done(i + 1, <<10>>)
        ELSE IF ch = 114 THEN Done(i + 1, <<13>>)
        ELSE IF ch = 116 THEN Done(i + 1, <<9>>)
        ELSE IF ch = 117 THEN parse_unicode_escape(s, i + 1)
        ELSE Fail

\* SliceRead::skip_to_escape: the index of the first byte from i on that
\* is '"', '\' or a control character, or Len(s) + 1 when there is none.
skip_to_escape(s, i) ==
    LET stops == { j \in i..Len(s) : s[j] = 34 \/ s[j] = 92 \/ s[j] < 32 }
    IN  IF stops = {} THEN Len(s) + 1
        ELSE CHOOSE j \in stops : \A k \in stops : j <= k

\* The state of a loop that has failed.
Failed == [ok |-> FALSE, pos |-> 0, val |-> <<>>, done |-> TRUE]

\* One turn of the loop of SliceRead::parse_str, on the loop's state
\* [ok, pos, val, done]: val is the scratch, what has been read so far.
\* The bytes up to the next '"', '\' or control character are copied; a
\* '"' ends the string, whose text is checked to be UTF-8 (as_str); a '\'
\* has its escape resolved; a control character or the end of input
\* inside the string is an error. A finished loop stays as it is.
StrTurn(s, st) ==
    LET j    == skip_to_escape(s, st.pos)
        text == st.val \o SubSeq(s, st.pos, j - 1)
        e    == parse_escape(s, j + 1)
    IN  CASE st.done -> st
          [] ~st.done /\ Peek(s, j) = 34 /\ ValidUtf8(text) ->
                [ok |-> TRUE, pos |-> j + 1, val |-> text, done |-> TRUE]
          [] ~st.done /\ Peek(s, j) = 92 /\ e.ok ->
                [ok |-> TRUE, pos |-> e.pos, val |-> text \o e.val,
                 done |-> FALSE]
          [] OTHER -> Failed

\* n turns of the loop, the first half of them and then the rest.
RECURSIVE StrTurns(_, _, _)
StrTurns(s, st, n) ==
    CASE st.done \/ n = 0 -> st
      [] ~st.done /\ n = 1 -> StrTurn(s, st)
      [] OTHER -> StrTurns(s, StrTurns(s, st, n \div 2), n - n \div 2)

\* SliceRead::parse_str, after the opening quote: the text of the string,
\* escapes resolved; scratch is what has been read so far. Every turn but
\* the last reads a '\', so one turn more than there are '\' ends the loop.
parse_str(s, i, scratch) ==
    LET st == StrTurns(s, [ok |-> TRUE, pos |-> i, val |-> scratch,
                           done |-> FALSE],
                       Cardinality({ j \in i..Len(s) : s[j] = 92 }) + 1)
    IN  IF st.ok THEN Done(st.pos, st.val) ELSE Fail

\* SliceRead::ignore_str, after the opening quote: escapes are checked for
\* their form only, the text is not checked to be UTF-8.
RECURSIVE ignore_str(_, _)
ignore_str(s, i) ==
    LET j == skip_to_escape(s, i)
    IN  CASE Peek(s, j) = 34 -> Done(j + 1, <<>>)
          [] Peek(s, j) = 92
               /\ Peek(s, j + 1) \in {34, 92, 47, 98, 102, 110, 114, 116} ->
                ignore_str(s, j + 2)
          [] Peek(s, j) = 92 /\ Peek(s, j + 1) = 117
               /\ decode_hex_escape(s, j + 2) # -1 ->
                ignore_str(s, j + 6)
          [] OTHER -> Fail

RECURSIVE SkipDigits(_, _)
SkipDigits(s, i) == IF IsDigit(Peek(s, i)) THEN SkipDigits(s, i + 1) ELSE i

\* ignore_exponent, at the 'e' or 'E'.
ignore_exponent(s, i) ==
    LET j == IF Peek(s, i + 1) \in {43, 45} THEN i + 2 ELSE i + 1
    IN  IF IsDigit(Peek(s, j)) THEN Done(SkipDigits(s, j), <<>>) ELSE Fail

\* ignore_decimal, at the '.'.
ignore_decimal(s, i) ==
    LET j == SkipDigits(s, i + 1)
    IN  IF ~IsDigit(Peek(s, i + 1)) THEN Fail
        ELSE IF Peek(s, j) \in {101, 69} THEN ignore_exponent(s, j)
        ELSE Done(j, <<>>)

\* ignore_integer, at the first digit (a leading '-' already eaten).
ignore_integer(s, i) ==
    LET ch == Peek(s, i)
        j  == IF ch = 48 THEN i + 1 ELSE SkipDigits(s, i)
    IN  IF ~IsDigit(ch) THEN Fail
        ELSE IF ch = 48 /\ IsDigit(Peek(s, i + 1)) THEN Fail
        ELSE IF Peek(s, j) = 46 THEN ignore_decimal(s, j)
        ELSE IF Peek(s, j) \in {101, 69} THEN ignore_exponent(s, j)
        ELSE Done(j, <<>>)

\* parse_ident: the bytes at i are exactly ident.
parse_ident(s, i, ident) ==
    IF i + Len(ident) - 1 <= Len(s) /\ SubSeq(s, i, i + Len(ident) - 1) = ident
    THEN Done(i + Len(ident), <<>>)
    ELSE Fail

(***************************************************************************)
(* serde_json's Deserializer driven by the derived Deserialize impls of    *)
(* DeckList and Card (lib.rs 59-74). A type is named by a string:          *)
(*   "DeckList"  struct { Name: String, Cards: Vec<Card> }                 *)
(*   "Card"      struct { CardDefId: String }                              *)
(*   "VecCard"   Vec<Card>                                                 *)
(*   "String"    String                                                    *)
(*   "IgnoredAny" the value of a key the struct does not know              *)
(***************************************************************************)
\* The FIELDS of a derived struct, in declaration order, under the names
\* #[serde(rename = ...)] gives them.
Fields(ty) ==
    IF ty = "DeckList"
    THEN <<[key |-> KeyName, ty |-> "String"], [key |-> KeyCards, ty |-> "VecCard"]>>
    ELSE <<[key |-> KeyCardDefId, ty |-> "String"]>>

\* __FieldVisitor::visit_str: the index of the field a key names, or 0 for
\* __ignore. The comparison is on the bytes: case matters.
FieldIndex(ty, key) ==
    IF \E k \in 1..Len(Fields(ty)) : Fields(ty)[k].key = key
    THEN CHOOSE k \in 1..Len(Fields(ty)) : Fields(ty)[k].key = key
    ELSE 0

\* The struct built from its field values.
Build(ty, vals) ==
    IF ty = "DeckList" THEN [name |-> vals[1], cards |-> vals[2]]
    ELSE [name |-> vals[1]]

RECURSIVE Deserialize(_, _, _), ignore_value(_, _), IgnoreList(_, _),
          IgnoreObject(_, _), VisitSeqStruct(_, _, _, _, _),
          VisitMap(_, _, _, _, _)

\* ignore_value as #[serde(deny_unknown_fields)] would have it: a key the
\* struct does not know is an error.
ignore_value_denied(s, i) == Fail

\* Deserializer::ignore_value: any one JSON value, skipped.
ignore_value(s, i) ==
    LET p  == parse_whitespace(s, i)
        ch == Peek(s, p)
        q  == parse_whitespace(s, p + 1)
    IN  CASE ch = 110 -> parse_ident(s, p + 1, <<117, 108, 108>>)
          [] ch = 116 -> parse_ident(s, p + 1, <<114, 117, 101>>)
          [] ch = 102 -> parse_ident(s, p + 1, <<97, 108, 115, 101>>)
          [] ch = 45 -> ignore_integer(s, p + 1)
          [] IsDigit(ch) -> ignore_integer(s, p)
          [] ch = 34 -> ignore_str(s, p + 1)
          [] ch = 91 /\ Peek(s, q) = 93 -> Done(q + 1, <<>>)
          [] ch = 91 /\ Peek(s, q) # 93 -> IgnoreList(s, q)
          [] ch = 123 /\ Peek(s, q) = 125 -> Done(q + 1, <<>>)
          [] ch = 123 /\ Peek(s, q) # 125 -> IgnoreObject(s, q)
          [] OTHER -> Fail

\* What follows a skipped element or member that ended before i: ',' and
\* more of them, or the closing bracket.
IgnoreRest(s, i, close) ==
    LET p == parse_whitespace(s, i)
    IN  CASE Peek(s, p) = 44 /\ close = 93 -> IgnoreList(s, p + 1)
          [] Peek(s, p) = 44 /\ close = 125 -> IgnoreObject(s, p + 1)
          [] Peek(s, p) = close -> Done(p + 1, <<>>)
          [] OTHER -> Fail

\* The elements of a skipped list, from an element on: value, then ',' and
\* another element, or ']'.
IgnoreList(s, i) ==
    AndThen(ignore_value(s, i), LAMBDA v : IgnoreRest(s, v.pos, 93))

\* The members of a skipped object, from a key on: "key" ':' value, then
\* ',' and another member, or '}'.
IgnoreObject(s, i) ==
    LET p == parse_whitespace(s, i)
        k == ignore_str(s, p + 1)
        c == parse_whitespace(s, k.pos)
    IN  IF Peek(s, p) = 34 /\ k.ok /\ Peek(s, c) = 58
        THEN AndThen(ignore_value(s, c + 1), LAMBDA v :
                IgnoreRest(s, v.pos, 125))
        ELSE Fail

\* Deserializer::deserialize_str, visited by String's StringVisitor.
deserialize_str(s, i) ==
    LET p == parse_whitespace(s, i)
    IN  IF Peek(s, p) = 34 THEN parse_str(s, p + 1, <<>>) ELSE Fail

\* Ok(Some(value)) of next_element, from the value's parse step.
SomeElement(e) ==
    IF e.ok
    THEN [ok |-> TRUE, pos |-> e.pos, val |-> e.val, some |-> TRUE]
    ELSE Fail

\* SeqAccess::next_element_seed: [ok, pos, val, some]. some = FALSE is
\* Ok(None): the ']' is next and is left unread. An element after the
\* first follows a ','; a ']' after the ',' is an error.
next_element(s, i, first, ty) ==
    LET p  == parse_whitespace(s, i)
        ch == Peek(s, p)
        q  == IF first THEN p ELSE parse_whitespace(s, p + 1)
    IN  CASE ch = 93 ->
                [ok |-> TRUE, pos |-> p, val |-> <<>>, some |-> FALSE]
          [] ch \notin {93, -1} /\ first ->
                SomeElement(Deserialize(s, q, ty))
          [] ch = 44 /\ ~first /\ Peek(s, q) \notin {93, -1} ->
                SomeElement(Deserialize(s, q, ty))
          [] OTHER -> Fail

\* The derived Visitor::visit_seq of a struct: field k and those after it
\* are taken from the elements in order; an element missing is
\* invalid_length.
VisitSeqStruct(s, i, ty, k, vals) ==
    IF k > Len(Fields(ty)) THEN Done(i, Build(ty, vals))
    ELSE AndThen(next_element(s, i, k = 1, Fields(ty)[k].ty), LAMBDA e :
            IF ~e.some THEN Fail
            ELSE VisitSeqStruct(s, e.pos, ty, k + 1, Append(vals, e.val)))

\* The loop's state after next_element has returned e.
VecPush(st, e) ==
    CASE ~e.ok -> Failed
      [] e.ok /\ ~e.some ->
            [ok |-> TRUE, pos |-> e.pos, val |-> st.val, done |-> TRUE]
      [] OTHER ->
            [ok |-> TRUE, pos |-> e.pos, val |-> Append(st.val, e.val),
             done |-> FALSE]

\* One turn of VecVisitor::visit_seq's
\* `while let Some(value) = seq.next_element()?`, on the loop's state
\* [ok, pos, val, done]: val is the vector so far, done is set by Ok(None)
\* and by an error; a finished loop stays as it is.
VecTurn(s, st) ==
    IF st.done THEN st
    ELSE VecPush(st, next_element(s, st.pos, st.val = <<>>, "Card"))

\* n turns of the loop, the first half of them and then the rest.
RECURSIVE VecTurns(_, _, _)
VecTurns(s, st, n) ==
    CASE st.done \/ n = 0 -> st
      [] ~st.done /\ n = 1 -> VecTurn(s, st)
      [] OTHER -> VecTurns(s, VecTurns(s, st, n \div 2), n - n \div 2)

\* VecVisitor::visit_seq: elements until Ok(None). Every turn but the
\* first and the last reads a ',', so two turns more than there are ','
\* end the loop.
VisitSeqVec(s, i) ==
    LET st == VecTurns(s, [ok |-> TRUE, pos |-> i, val |-> <<>>,
                           done |-> FALSE],
                       Cardinality({ j \in i..Len(s) : s[j] = 44 }) + 2)
    IN  IF st.ok THEN Done(st.pos, st.val) ELSE Fail

\* The arms of the derived visit_map for the key just read: field k's
\* value (a second value for the same field is duplicate_field), or for
\* k = 0 a value to ignore; then the next key.
VisitMapValue(s, i, ty, k, vals) ==
    CASE k = 0 ->
            AndThen(ignore_value(s, i), LAMBDA v :
                VisitMap(s, v.pos, ty, FALSE, vals))
      [] k # 0 /\ Len(vals[k]) = 0 ->
            AndThen(Deserialize(s, i, Fields(ty)[k].ty), LAMBDA v :
                VisitMap(s, v.pos, ty, FALSE, [vals EXCEPT ![k] = <<v.val>>]))
      [] OTHER -> Fail

\* The derived Visitor::visit_map of a struct, with MapAccess::next_key_seed
\* and next_value_seed: vals[k] is <<>> while field k is unset and <<v>>
\* once set. Ends at the '}' (left unread); a field still unset then is
\* missing_field. A key after the first follows a ','; a key is a string
\* and is followed by ':'.
VisitMap(s, i, ty, first, vals) ==
    LET p   == parse_whitespace(s, i)
        ch  == Peek(s, p)
        q   == IF first THEN p ELSE parse_whitespace(s, p + 1)
        key == parse_str(s, q + 1, <<>>)
        c   == parse_whitespace(s, key.pos)
    IN  CASE ch = 125 /\ (\A f \in 1..Len(vals) : Len(vals[f]) = 1) ->
                Done(p, Build(ty, [f \in 1..Len(vals) |-> vals[f][1]]))
          [] ch # 125 /\ (first \/ ch = 44) /\ Peek(s, q) = 34
               /\ key.ok /\ Peek(s, c) = 58 ->
                VisitMapValue(s, c + 1, ty, FieldIndex(ty, key.val), vals)
          [] OTHER -> Fail

\* Deserializer::end_seq / end_map after the visitor's result r: the
\* closing bracket must be next.
EndOf(s, r, close) ==
    LET e == parse_whitespace(s, r.pos)
    IN  IF Peek(s, e) = close THEN Done(e + 1, r.val) ELSE Fail

\* Deserializer::deserialize_struct: a '[' is visited as a sequence and a
\* '{' as a map.
deserialize_struct(s, i, ty) ==
    LET p == parse_whitespace(s, i)
    IN  CASE Peek(s, p) = 91 ->
                AndThen(VisitSeqStruct(s, p + 1, ty, 1, <<>>), LAMBDA r :
                    EndOf(s, r, 93))
          [] Peek(s, p) = 123 ->
                AndThen(VisitMap(s, p + 1, ty, TRUE,
                                 [f \in 1..Len(Fields(ty)) |-> <<>>]),
                        LAMBDA r : EndOf(s, r, 125))
          [] OTHER -> Fail

\* Deserializer::deserialize_seq for Vec<Card>.
deserialize_seq(s, i) ==
    LET p == parse_whitespace(s, i)
    IN  IF Peek(s, p) = 91
        THEN AndThen(VisitSeqVec(s, p + 1), LAMBDA r : EndOf(s, r, 93))
        ELSE Fail

\* <T as Deserialize>::deserialize for the types of the crate.
Deserialize(s, i, ty) ==
    CASE ty = "String" -> deserialize_str(s, i)
      [] ty = "VecCard" -> deserialize_seq(s, i)
      [] ty = "IgnoredAny" -> ignore_value(s, i)
      [] OTHER -> deserialize_struct(s, i, ty)

\* serde_json::from_slice::<DeckList>: the value, then Deserializer::end
\* (only whitespace may follow). [ok, val]
from_slice(s) ==
    With(Deserialize(s, 1, "DeckList"), LAMBDA r :
        IF r.ok /\ parse_whitespace(s, r.pos) > Len(s)
        THEN [ok |-> TRUE, val |-> r.val]
        ELSE [ok |-> FALSE, val |-> <<>>])

(***************************************************************************)
(* The DeckList API (lib.rs 76-202). A DeckList is [name, cards]; a Card   *)
(* is [name]. A Result is [kind, val]: kind "Ok" or the error's variant.   *)
(***************************************************************************)
Ok(v) == [kind |-> "Ok", val |-> v]
Err(e) == [kind |-> e, val |-> <<>>]

\* DeckList::new
new == [name |-> <<>>, cards |-> <<>>]

\* set_name as a setter that builds the deck anew would do it: the cards
\* are lost.
set_name_clearing(self, n) == [name |-> n, cards |-> <<>>]

\* DeckList::set_name
set_name(self, n) == [self EXCEPT !.name = n]

\* DeckList::name
name(self) == self.name

\* set_cards as a setter that keeps a set of cards would do it: an
\* identifier already taken is skipped. The crate has no such setter;
\* DeckList::set_cards, below, keeps every element.
set_cards_unique(self, cs) ==
    LET RECURSIVE Unique(_, _)
        Unique(i, acc) ==
            IF i > Len(cs) THEN acc
            ELSE IF \E j \in 1..Len(acc) : acc[j].name = cs[i]
            THEN Unique(i + 1, acc)
            ELSE Unique(i + 1, Append(acc, [name |-> cs[i]]))
    IN  [self EXCEPT !.cards = Unique(1, <<>>)]

\* DeckList::set_cards: one Card per identifier, in order; the list is
\* replaced.
set_cards(self, cs) ==
    [self EXCEPT !.cards = [i \in 1..Len(cs) |-> [name |-> cs[i]]]]

\* DeckList::cards
cards(self) == [i \in 1..Len(self.cards) |-> self.cards[i].name]

\* from_code with the stages' errors looked at in the other order.
from_code_json_first(code) ==
    With(B64Decode(code), LAMBDA value :
        With(from_slice(value.val), LAMBDA json :
            IF ~json.ok THEN Err("InvalidDeckInput")
            ELSE IF ~value.ok THEN Err("DecodingError")
            ELSE Ok(json.val)))

\* DeckList::from_code: Base64 first, then JSON; each stage's error is
\* mapped to its own variant and returned at once.
from_code(code) ==
    With(B64Decode(code), LAMBDA value :
        IF ~value.ok THEN Err("DecodingError")
        ELSE With(from_slice(value.val), LAMBDA json :
            IF ~json.ok THEN Err("InvalidDeckInput")
            ELSE Ok(json.val)))

\* DeckList::into_code
into_code(self) ==
    With(to_string(self), LAMBDA data :
        IF ~data.ok THEN Err("EncodingError")
        ELSE Ok(B64Encode(data.val)))

(***************************************************************************)
(* The values the calls are made with.                                     *)
(***************************************************************************)
Thanos == <<84, 104, 97, 110, 111, 115>>                       \* "Thanos"
AntMan == <<65, 110, 116, 77, 97, 110>>                       \* "AntMan"

\* The twelve cards of the crate's tests and examples (lib.rs 230-243).
ReferenceCards == <<
      <<65, 110, 116, 77, 97, 110>>,
      <<65, 103, 101, 110, 116, 49, 51>>,
      <<81, 117, 105, 110, 106, 101, 116>>,
      <<65, 110, 103, 101, 108, 97>>,
      <<79, 107, 111, 121, 101>>,
      <<65, 114, 109, 111, 114>>,
      <<70, 97, 108, 99, 111, 110>>,
      <<77, 121, 115, 116, 105, 113, 117, 101>>,
      <<76, 111, 99, 107, 106, 97, 119>>,
      <<75, 97, 90, 97, 114>>,
      <<68, 101, 118, 105, 108, 68, 105, 110, 111, 115, 97, 117, 114>>,
      <<84, 104, 97, 110, 111, 115>>>>

\* tests::VALID_CODE (lib.rs 208).
VALID_CODE ==
    <<101, 121, 74, 79, 89, 87, 49, 108, 73, 106, 111, 105, 86, 71, 104,
      104, 98, 109, 57, 122, 73, 105, 119, 105, 81, 50, 70, 121, 90, 72, 77,
      105, 79, 108, 116, 55, 73, 107, 78, 104, 99, 109, 82, 69, 90, 87, 90,
      74, 90, 67, 73, 54, 73, 107, 70, 117, 100, 69, 49, 104, 98, 105, 74,
      57, 76, 72, 115, 105, 81, 50, 70, 121, 90, 69, 82, 108, 90, 107, 108,
      107, 73, 106, 111, 105, 81, 87, 100, 108, 98, 110, 81, 120, 77, 121,
      74, 57, 76, 72, 115, 105, 81, 50, 70, 121, 90, 69, 82, 108, 90, 107,
      108, 107, 73, 106, 111, 105, 85, 88, 86, 112, 98, 109, 112, 108, 100,
      67, 74, 57, 76, 72, 115, 105, 81, 50, 70, 121, 90, 69, 82, 108, 90,
      107, 108, 107, 73, 106, 111, 105, 81, 87, 53, 110, 90, 87, 120, 104,
      73, 110, 48, 115, 101, 121, 74, 68, 89, 88, 74, 107, 82, 71, 86, 109,
      83, 87, 81, 105, 79, 105, 74, 80, 97, 50, 57, 53, 90, 83, 74, 57, 76,
      72, 115, 105, 81, 50, 70, 121, 90, 69, 82, 108, 90, 107, 108, 107, 73,
      106, 111, 105, 81, 88, 74, 116, 98, 51, 73, 105, 102, 83, 120, 55, 73,
      107, 78, 104, 99, 109, 82, 69, 90, 87, 90, 74, 90, 67, 73, 54, 73,
      107, 90, 104, 98, 71, 78, 118, 98, 105, 74, 57, 76, 72, 115, 105, 81,
      50, 70, 121, 90, 69, 82, 108, 90, 107, 108, 107, 73, 106, 111, 105,
      84, 88, 108, 122, 100, 71, 108, 120, 100, 87, 85, 105, 102, 83, 120,
      55, 73, 107, 78, 104, 99, 109, 82, 69, 90, 87, 90, 74, 90, 67, 73, 54,
      73, 107, 120, 118, 89, 50, 116, 113, 89, 88, 99, 105, 102, 83, 120,
      55, 73, 107, 78, 104, 99, 109, 82, 69, 90, 87, 90, 74, 90, 67, 73, 54,
      73, 107, 116, 104, 87, 109, 70, 121, 73, 110, 48, 115, 101, 121, 74,
      68, 89, 88, 74, 107, 82, 71, 86, 109, 83, 87, 81, 105, 79, 105, 74,
      69, 90, 88, 90, 112, 98, 69, 82, 112, 98, 109, 57, 122, 89, 88, 86,
      121, 73, 110, 48, 115, 101, 121, 74, 68, 89, 88, 74, 107, 82, 71, 86,
      109, 83, 87, 81, 105, 79, 105, 74, 85, 97, 71, 70, 117, 98, 51, 77,
      105, 102, 86, 49, 57>>

\* Deck names: empty, plain, with the characters JSON escapes (quote,
\* backslash, newline, U+0001), and with two- and four-byte UTF-8 text.
Names ==
    { <<>>, Thanos, <<97, 34, 92>>, <<10, 1>>, <<195, 169>>,
      <<240, 159, 131, 143, 127>> }

\* Card identifiers: plain, empty, and one mixing UTF-8 with escapes.
CardIds == { AntMan, <<>>, <<195, 169, 34, 92, 9>> }

CardSeqs ==
    UNION { [1..n -> CardIds] : n \in 0..MaxCards } \cup { ReferenceCards }

\* doc when the argument of from_code is not a composed document.
NoDoc == [top |-> "none", nameM |-> "-", cardsM |-> "-", swap |-> FALSE,
          extraAt |-> 0, extra |-> "-"]

\* coded before the first into_code.
NoCode == [some |-> FALSE, deck |-> new, ret |-> Ok(<<>>), moved |-> FALSE,
           again |-> FALSE]

\* coded after new or a setter has left the caller with the deck l: the
\* remembered call is kept, marked as followed by a change of the deck
\* (moved), while l has the cards of the remembered deck, and is forgotten
\* once the cards differ.
AfterChange(l) ==
    IF coded.some /\ coded.deck.cards = l.cards
    THEN [coded EXCEPT !.moved = TRUE, !.again = FALSE]
    ELSE NoCode

\* coded after into_code has returned r for the deck l: again tells that
\* the remembered call was on an equal deck and that the deck was changed
\* and set back in between.
AfterCode(l, r) ==
    [some |-> TRUE, deck |-> l, ret |-> r, moved |-> FALSE,
     again |-> coded.some /\ coded.deck = l /\ coded.moved]

(***************************************************************************)
(* The caller: one DeckList, and one call per step.                        *)
(***************************************************************************)
Init ==
    /\ list = new
    /\ op = "new"
    /\ arg = <<>>
    /\ ret = Ok(<<>>)
    /\ last = [name |-> <<>>, cards |-> <<>>]
    /\ doc = NoDoc
    /\ coded = NoCode

\* let mut list = DeckList::new();
New ==
    /\ list' = new
    /\ op' = "new"
    /\ arg' = <<>>
    /\ ret' = Ok(<<>>)
    /\ last' = [name |-> <<>>, cards |-> <<>>]
    /\ doc' = NoDoc
    /\ coded' = AfterChange(new)

\* list.set_name(n)
SetName ==
    \E n \in Names :
        /\ list' = set_name(list, n)
        /\ op' = "set_name"
        /\ arg' = n
        /\ ret' = Ok(<<>>)
        /\ last' = [last EXCEPT !.name = n]
        /\ coded' = AfterChange(set_name(list, n))
        /\ UNCHANGED doc

\* list.set_cards(&cs)
SetCards ==
    \E cs \in CardSeqs :
        /\ list' = set_cards(list, cs)
        /\ op' = "set_cards"
        /\ arg' = cs
        /\ ret' = Ok(<<>>)
        /\ last' = [last EXCEPT !.cards = cs]
        /\ coded' = AfterChange(set_cards(list, cs))
        /\ UNCHANGED doc

\* list.name()
GetName ==
    /\ op' = "name"
    /\ arg' = <<>>
    /\ ret' = Ok(name(list))
    /\ UNCHANGED <<list, last, doc, coded>>

\* list.cards()
GetCards ==
    /\ op' = "cards"
    /\ arg' = <<>>
    /\ ret' = Ok(cards(list))
    /\ UNCHANGED <<list, last, doc, coded>>

\* into_code taking the deck by value (self in place of &self): the caller
\* is left with an empty deck.
IntoCodeTaking ==
    /\ op' = "into_code"
    /\ arg' = <<>>
    /\ ret' = into_code(list)
    /\ list' = new
    /\ coded' = AfterCode(list, ret')
    /\ UNCHANGED <<last, doc>>

\* list.into_code(): takes &self.
IntoCode ==
    /\ op' = "into_code"
    /\ arg' = <<>>
    /\ ret' = into_code(list)
    /\ coded' = AfterCode(list, ret')
    /\ UNCHANGED <<list, last, doc>>

\* DeckList::from_code(code) on the code into_code has just returned.
FromOwnCode ==
    /\ op = "into_code"
    /\ ret.kind = "Ok"
    /\ op' = "from_code"
    /\ arg' = ret.val
    /\ ret' = from_code(ret.val)
    /\ UNCHANGED <<list, last, doc, coded>>

\* DeckList::from_code(&VALID_CODE.to_string()) of the crate's tests: the
\* Result, before the tests unwrap it.
DecodedValidCode == from_code(VALID_CODE)

\* DeckList::from_code(VALID_CODE), as the crate's tests call it.
FromValidCode ==
    /\ op' = "from_code"
    /\ arg' = VALID_CODE
    /\ ret' = DecodedValidCode
    /\ UNCHANGED <<list, last, doc, coded>>

Next ==
    \/ New
    \/ SetName
    \/ SetCards
    \/ GetName
    \/ GetCards
    \/ IntoCode
    \/ FromOwnCode
    \/ FromValidCode

Spec == Init /\ [][Next]_vars

(***************************************************************************)
(* Codes from outside: free text, and Base64 of JSON documents composed    *)
(* from a catalogue of members. A document is described by                 *)
(*   top      "obj": {members}   "arr": [member values]                    *)
(*   nameM    the member standing for the name, or "absent"                *)
(*   cardsM   the member standing for the cards, or "absent"               *)
(*   swap     the cards member comes before the name member                *)
(*   extra    one more member, or "none"; extraAt: 1 first, 2 between the  *)
(*            two, 3 last                                                  *)
(***************************************************************************)
NameTags ==
    { "absent", "Name:a", "Name:empty", "Name:esc", "Name:num",
      "Name:null", "Name:arr", "name:a", "NAME:a", "Name:twice" }

CardsTags ==
    { "absent", "Cards:[]", "Cards:[x]", "Cards:[x,x]", "Cards:[y,x]",
      "Cards:str", "Cards:obj", "Cards:null", "cards:[]",
      "Cards:[str]", "Cards:[{}]", "Cards:[num]", "Cards:[lower]",
      "Cards:[[x]]", "Cards:[x+]", "Cards:[+x]" }

ExtraTags == { "none", "Extra:num", "Extra:deck", "Extra:str", "Extra:list" }

\* The members a tag stands for: [key, val], both as written in the text.
NameMembers(tag) ==
    \* "Name":"a"
    CASE tag = "Name:a" ->
          << [key |-> <<34, 78, 97, 109, 101, 34>>,
               val |-> <<34, 97, 34>>] >>
    \* "Name":""
      [] tag = "Name:empty" ->
          << [key |-> <<34, 78, 97, 109, 101, 34>>,
               val |-> <<34, 34>>] >>
    \* "Name":"é\n🃏"
      [] tag = "Name:esc" ->
          << [key |-> <<34, 78, 97, 109, 101, 34>>,
               val |-> <<34, 92, 117, 48, 48, 101, 57, 92, 110, 92, 117, 100, 56, 51, 99, 92, 117, 100, 99, 99, 102, 34>>] >>
    \* "Name":1
      [] tag = "Name:num" ->
          << [key |-> <<34, 78, 97, 109, 101, 34>>,
               val |-> <<49>>] >>
    \* "Name":null
      [] tag = "Name:null" ->
          << [key |-> <<34, 78, 97, 109, 101, 34>>,
               val |-> <<110, 117, 108, 108>>] >>
    \* "Name":["a"]
      [] tag = "Name:arr" ->
          << [key |-> <<34, 78, 97, 109, 101, 34>>,
               val |-> <<91, 34, 97, 34, 93>>] >>
    \* "name":"a"
      [] tag = "name:a" ->
          << [key |-> <<34, 110, 97, 109, 101, 34>>,
               val |-> <<34, 97, 34>>] >>
    \* "NAME":"a"
      [] tag = "NAME:a" ->
          << [key |-> <<34, 78, 65, 77, 69, 34>>,
               val |-> <<34, 97, 34>>] >>
    \* "Name":"a","Name":"a"
      [] tag = "Name:twice" ->
          << [key |-> <<34, 78, 97, 109, 101, 34>>,
               val |-> <<34, 97, 34>>],
             [key |-> <<34, 78, 97, 109, 101, 34>>,
               val |-> <<34, 97, 34>>] >>
      [] OTHER -> <<>>

CardsMembers(tag) ==
    \* "Cards":[]
    CASE tag = "Cards:[]" ->
          << [key |-> <<34, 67, 97, 114, 100, 115, 34>>,
               val |-> <<91, 93>>] >>
    \* "Cards":[{"CardDefId":"x"}]
      [] tag = "Cards:[x]" ->
          << [key |-> <<34, 67, 97, 114, 100, 115, 34>>,
               val |-> <<91, 123, 34, 67, 97, 114, 100, 68, 101, 102, 73, 100, 34, 58, 34, 120, 34, 125, 93>>] >>
    \* "Cards":[{"CardDefId":"x"},{"CardDefId":"x"}]
      [] tag = "Cards:[x,x]" ->
          << [key |-> <<34, 67, 97, 114, 100, 115, 34>>,
               val |-> <<91, 123, 34, 67, 97, 114, 100, 68, 101, 102, 73, 100, 34, 58, 34, 120, 34, 125, 44, 123, 34, 67, 97, 114, 100, 68, 101, 102, 73, 100, 34, 58, 34, 120, 34, 125, 93>>] >>
    \* "Cards":[ {"CardDefId" : "y"} ,<newline>{"CardDefId":"x"} ]
      [] tag = "Cards:[y,x]" ->
          << [key |-> <<34, 67, 97, 114, 100, 115, 34>>,
               val |-> <<91, 32, 123, 34, 67, 97, 114, 100, 68, 101, 102, 73, 100, 34, 32, 58, 32, 34, 121, 34, 125, 32, 44, 10, 123, 34, 67, 97, 114, 100, 68, 101, 102, 73, 100, 34, 58, 34, 120, 34, 125, 32, 93>>] >>
    \* "Cards":"x"
      [] tag = "Cards:str" ->
          << [key |-> <<34, 67, 97, 114, 100, 115, 34>>,
               val |-> <<34, 120, 34>>] >>
    \* "Cards":{}
      [] tag = "Cards:obj" ->
          << [key |-> <<34, 67, 97, 114, 100, 115, 34>>,
               val |-> <<123, 125>>] >>
    \* "Cards":null
      [] tag = "Cards:null" ->
          << [key |-> <<34, 67, 97, 114, 100, 115, 34>>,
               val |-> <<110, 117, 108, 108>>] >>
    \* "cards":[]
      [] tag = "cards:[]" ->
          << [key |-> <<34, 99, 97, 114, 100, 115, 34>>,
               val |-> <<91, 93>>] >>
    \* "Cards":["x"]
      [] tag = "Cards:[str]" ->
          << [key |-> <<34, 67, 97, 114, 100, 115, 34>>,
               val |-> <<91, 34, 120, 34, 93>>] >>
    \* "Cards":[{}]
      [] tag = "Cards:[{}]" ->
          << [key |-> <<34, 67, 97, 114, 100, 115, 34>>,
               val |-> <<91, 123, 125, 93>>] >>
    \* "Cards":[{"CardDefId":1}]
      [] tag = "Cards:[num]" ->
          << [key |-> <<34, 67, 97, 114, 100, 115, 34>>,
               val |-> <<91, 123, 34, 67, 97, 114, 100, 68, 101, 102, 73, 100, 34, 58, 49, 125, 93>>] >>
    \* "Cards":[{"carddefid":"x"}]
      [] tag = "Cards:[lower]" ->
          << [key |-> <<34, 67, 97, 114, 100, 115, 34>>,
               val |-> <<91, 123, 34, 99, 97, 114, 100, 100, 101, 102, 105, 100, 34, 58, 34, 120, 34, 125, 93>>] >>
    \* "Cards":[["x"]]
      [] tag = "Cards:[[x]]" ->
          << [key |-> <<34, 67, 97, 114, 100, 115, 34>>,
               val |-> <<91, 91, 34, 120, 34, 93, 93>>] >>
    \* "Cards":[{"CardDefId":"x","Rarity":2}]
      [] tag = "Cards:[x+]" ->
          << [key |-> <<34, 67, 97, 114, 100, 115, 34>>,
               val |-> <<91, 123, 34, 67, 97, 114, 100, 68, 101, 102, 73, 100, 34, 58, 34, 120, 34, 44, 34, 82, 97, 114, 105, 116, 121, 34, 58, 50, 125, 93>>] >>
    \* "Cards":[{"Cost":[null],"CardDefId":"x"}]
      [] tag = "Cards:[+x]" ->
          << [key |-> <<34, 67, 97, 114, 100, 115, 34>>,
               val |-> <<91, 123, 34, 67, 111, 115, 116, 34, 58, 91, 110, 117, 108, 108, 93, 44, 34, 67, 97, 114, 100, 68, 101, 102, 73, 100, 34, 58, 34, 120, 34, 125, 93>>] >>
      [] OTHER -> <<>>

ExtraMembers(tag) ==
    \* "Extra":1
    CASE tag = "Extra:num" ->
          << [key |-> <<34, 69, 120, 116, 114, 97, 34>>,
               val |-> <<49>>] >>
    \* "Extra":{"Name":"z","Cards":[1,{"k":[]}]}
      [] tag = "Extra:deck" ->
          << [key |-> <<34, 69, 120, 116, 114, 97, 34>>,
               val |-> <<123, 34, 78, 97, 109, 101, 34, 58, 34, 122, 34, 44, 34, 67, 97, 114, 100, 115, 34, 58, 91, 49, 44, 123, 34, 107, 34, 58, 91, 93, 125, 93, 125>>] >>
    \* "Tag":"s\"\\"
      [] tag = "Extra:str" ->
          << [key |-> <<34, 84, 97, 103, 34>>,
               val |-> <<34, 115, 92, 34, 92, 92, 34>>] >>
    \* "V": [true, false, null, -1.5e+3] 
      [] tag = "Extra:list" ->
          << [key |-> <<34, 86, 34>>,
               val |-> <<32, 91, 116, 114, 117, 101, 44, 32, 102, 97, 108, 115, 101, 44, 32, 110, 117, 108, 108, 44, 32, 45, 49, 46, 53, 101, 43, 51, 93, 32>>] >>
      [] OTHER -> <<>>

Docs ==
    { d \in [top : {"obj", "arr"}, nameM : NameTags, cardsM : CardsTags,
             swap : BOOLEAN, extraAt : 0..3, extra : ExtraTags] :
        (d.extraAt = 0) <=> (d.extra = "none") }

\* The JSON text of a document.
Render(d) ==
    LET n  == NameMembers(d.nameM)
        c  == CardsMembers(d.cardsM)
        x  == ExtraMembers(d.extra)
        a  == IF d.swap THEN c ELSE n
        b  == IF d.swap THEN n ELSE c
        ms == (IF d.extraAt = 1 THEN x ELSE <<>>) \o a
              \o (IF d.extraAt = 2 THEN x ELSE <<>>) \o b
              \o (IF d.extraAt = 3 THEN x ELSE <<>>)
    IN  IF d.top = "obj"
        THEN <<123>>
             \o JoinComma([i \in 1..Len(ms) |-> ms[i].key \o <<58>> \o ms[i].val])
             \o <<125>>
        ELSE <<91>> \o JoinComma([i \in 1..Len(ms) |-> ms[i].val]) \o <<93>>

\* Free text: the bytes Q e 3 0 (Base64 symbols), '=', '!', ' ' and '-'.
TextAlphabet == {81, 101, 51, 48, 61, 33, 32, 45}

Texts == UNION { [1..n -> TextAlphabet] : n \in 0..MaxTextLen }

\* A caller that has been handed one code, text from outside or the
\* unpadded Base64 of a document, and has not decoded it yet.
InitDecode ==
    /\ list = new
    /\ last = [name |-> <<>>, cards |-> <<>>]
    /\ op = "input"
    /\ ret = Ok(<<>>)
    /\ coded = NoCode
    /\ \/ arg \in Texts /\ doc = NoDoc
       \/ \E d \in Docs : doc = d /\ arg = B64Encode(Render(d))

\* DeckList::from_code(code) on the code handed in.
FromCode ==
    /\ op = "input"
    /\ op' = "from_code"
    /\ ret' = from_code(arg)
    /\ UNCHANGED <<list, last, arg, doc, coded>>

NextDecode == FromCode

SpecDecode == InitDecode /\ [][NextDecode]_vars

(***************************************************************************)
(* Properties of the DeckList lifecycle, checked under Spec.               *)
(***************************************************************************)
\* The from_code just made was given the code of the deck the caller holds.
DecodedOwnCode == op = "from_code" /\ into_code(list) = Ok(arg)

\* C1: round trip. Decoding the code into_code gives for a deck succeeds
\* and returns a DeckList equal to that deck: the same name and the same
\* cards in the same order, whatever the name and the cards are (empty,
\* repeated, escaped or multi-byte text).
RoundTrip == DecodedOwnCode => ret = Ok(list)

\* A deck whose name needs escaping and whose cards repeat a multi-byte,
\* escaped identifier has been encoded and decoded back.
RoundTripWitness ==
    /\ DecodedOwnCode
    /\ name(list) = <<97, 34, 92>>
    /\ cards(list) = << <<195, 169, 34, 92, 9>>, <<195, 169, 34, 92, 9>> >>
    /\ ret.kind = "Ok"

\* RFC 4648, table 1: the standard alphabet, value v at index v + 1.
StandardAlphabet ==
    <<65, 66, 67, 68, 69, 70, 71, 72, 73, 74, 75, 76, 77, 78, 79, 80,
      81, 82, 83, 84, 85, 86, 87, 88, 89, 90, 97, 98, 99, 100, 101, 102,
      103, 104, 105, 106, 107, 108, 109, 110, 111, 112, 113, 114, 115,
      116, 117, 118, 119, 120, 121, 122, 48, 49, 50, 51, 52, 53, 54, 55,
      56, 57, 43, 47>>

IsStandardSymbol(b) == \E v \in 1..64 : StandardAlphabet[v] = b
ValueOf(b) == (CHOOSE v \in 1..64 : StandardAlphabet[v] = b) - 1

\* RFC 4648, section 4, without the final padding: c is the encoding of d.
\* Each group of three bytes is four symbols; one byte left is two symbols,
\* two bytes left are three, the unused low bits being zero.
IsUnpaddedBase64Of(c, d) ==
    LET full == Len(d) \div 3
        rest == Len(d) % 3
        V(i) == ValueOf(c[i])
    IN  /\ \A i \in 1..Len(c) : IsStandardSymbol(c[i])
        /\ Len(c) = 4 * full + (IF rest = 0 THEN 0 ELSE rest + 1)
        /\ \A g \in 0..(full - 1) :
              d[3 * g + 1] * 65536 + d[3 * g + 2] * 256 + d[3 * g + 3]
                = V(4 * g + 1) * 262144 + V(4 * g + 2) * 4096
                  + V(4 * g + 3) * 64 + V(4 * g + 4)
        /\ rest = 1 =>
              d[3 * full + 1] * 16 = V(4 * full + 1) * 64 + V(4 * full + 2)
        /\ rest = 2 =>
              (d[3 * full + 1] * 256 + d[3 * full + 2]) * 4
                = V(4 * full + 1) * 4096 + V(4 * full + 2) * 64
                  + V(4 * full + 3)

\* Reading a JSON text d from index p on; 0 means it was not as expected.
\* Literal: the bytes lit are next.
Literal(d, p, lit) ==
    IF p = 0 \/ p + Len(lit) - 1 > Len(d) THEN 0
    ELSE IF SubSeq(d, p, p + Len(lit) - 1) = lit THEN p + Len(lit)
    ELSE 0

\* StringOf: a JSON string denoting the text str is next.
StringOf(d, p, str) ==
    IF p = 0 \/ Peek(d, p) # 34 THEN 0
    ELSE LET r == parse_str(d, p + 1, <<>>)
         IN  IF r.ok /\ r.val = str THEN r.pos ELSE 0

\* CardObjects: the objects {"CardDefId":<id>} of cs[i], cs[i+1], ... are
\* next, separated by commas.
RECURSIVE CardObjects(_, _, _, _)
CardObjects(d, p, cs, i) ==
    IF p = 0 \/ i > Len(cs) THEN p
    ELSE
        LET sep   == IF i = 1 THEN p ELSE Literal(d, p, <<44>>)
            open  == Literal(d, sep, <<123, 34, 67, 97, 114, 100, 68, 101, 102, 73, 100, 34, 58>>)
            id    == StringOf(d, open, cs[i])
            close == Literal(d, id, <<125>>)
        IN  CardObjects(d, close, cs, i + 1)

\* d is the object {"Name":<name>,"Cards":[<card objects>]} and nothing else.
IsDeckDocument(d, nm, cs) ==
    LET a == Literal(d, 1, <<123, 34, 78, 97, 109, 101, 34, 58>>)
        b == StringOf(d, a, nm)
        c == Literal(d, b, <<44, 34, 67, 97, 114, 100, 115, 34, 58, 91>>)
        e == CardObjects(d, c, cs, 1)
        f == Literal(d, e, <<93, 125>>)
    IN  f = Len(d) + 1

\* C4: wire format. The code into_code returns is made of symbols of the
\* standard Base64 alphabet only (no '=', no line break) and is the unpadded
\* Base64 of the JSON object with the key "Name" (the deck's name) followed
\* by "Cards" (one {"CardDefId": id} object per card, in deck order); for
\* the deck "Thanos" with the twelve reference cards it is VALID_CODE.
WireFormat ==
    op = "into_code" =>
        /\ ret.kind = "Ok"
        /\ \E bytes \in {B64Decode(ret.val).val} :
              /\ IsUnpaddedBase64Of(ret.val, bytes)
              /\ IsDeckDocument(bytes, name(list), cards(list))
        /\ (name(list) = Thanos /\ cards(list) = ReferenceCards)
              => ret.val = VALID_CODE

\* The reference deck has been encoded.
WireFormatWitness ==
    /\ op = "into_code"
    /\ name(list) = Thanos
    /\ cards(list) = ReferenceCards
    /\ ret = Ok(VALID_CODE)

\* C6: order preservation. After set_cards(s), encoding the deck and
\* decoding the code gives a deck whose cards() is exactly s, repeated
\* identifiers kept; the reference code decodes to 12 cards, the first
\* being "AntMan".
OrderPreserved ==
    /\ DecodedOwnCode => (ret.kind = "Ok" /\ cards(ret.val) = last.cards)
    /\ (op = "from_code" /\ arg = VALID_CODE) =>
          /\ ret.kind = "Ok"
          /\ Len(cards(ret.val)) = 12
          /\ cards(ret.val)[1] = AntMan

\* A two-card sequence (the empty identifier first) has gone through
\* set_cards, into_code and from_code.
OrderPreservedWitness ==
    /\ DecodedOwnCode
    /\ last.cards = << <<>>, AntMan >>
    /\ ret.kind = "Ok"
    /\ cards(ret.val) = << <<>>, AntMan >>

\* C7: into_code never fails on a deck built by new, set_name and
\* set_cards: it returns a code, not EncodingError.
EncodeNeverFails == op = "into_code" => ret.kind = "Ok"

\* into_code has returned for a deck with multi-byte and control text.
EncodeNeverFailsWitness ==
    /\ op = "into_code"
    /\ name(list) = <<10, 1>>
    /\ Len(cards(list)) = MaxCards
    /\ ret.kind = "Ok"

SetterSemantics ==
    /\ name(list) = last.name
    /\ cards(list) = last.cards
    /\ op = "name" => ret = Ok(last.name)
    /\ op = "cards" => ret = Ok(last.cards)

\* cards() has been called after both setters, the card list non-empty.
SetterSemanticsWitness ==
    /\ op = "cards"
    /\ last.name = Thanos
    /\ last.cards = << AntMan, <<>> >>
    /\ ret.val = << AntMan, <<>> >>

(***************************************************************************)
(* Properties of decoding codes from outside, checked under SpecDecode.    *)
(***************************************************************************)
\* A text no unpadded standard Base64 encoder writes: a byte outside the
\* alphabet (a '=' included), or a length of 1 modulo 4.
MalformedBase64(text) ==
    \/ \E i \in 1..Len(text) : ~IsStandardSymbol(text[i])
    \/ Len(text) % 4 = 1

\* C2: malformed Base64 is refused with DecodingError, never with
\* InvalidDeckInput and never accepted.
RejectsMalformedBase64 ==
    (op = "from_code" /\ MalformedBase64(arg)) => ret.kind = "DecodingError"

\* "e30=", the padded Base64 of {}, has been refused as Base64.
RejectsMalformedBase64Witness ==
    /\ op = "from_code"
    /\ arg = <<101, 51, 48, 61>>
    /\ ret.kind = "DecodingError"

\* The members that are as the wire format has them: the name a string
\* under "Name", the cards an array under "Cards" of objects holding a
\* string under "CardDefId" (other keys may stand beside it).
GoodNameTags == { "Name:a", "Name:empty", "Name:esc" }
GoodCardsTags ==
    { "Cards:[]", "Cards:[x]", "Cards:[x,x]", "Cards:[y,x]", "Cards:[x+]",
      "Cards:[+x]" }

GoodDoc(d) ==
    d.top = "obj" /\ d.nameM \in GoodNameTags /\ d.cardsM \in GoodCardsTags

\* C3: a code that is valid Base64 of something other than the deck object
\* (an array at the top, "Name" or "Cards" missing or of the wrong type, a
\* card that is no object with a string "CardDefId") is refused with
\* InvalidDeckInput.
RejectsMalformedDocument ==
    (op = "from_code" /\ doc.top # "none" /\ ~GoodDoc(doc))
        => ret.kind = "InvalidDeckInput"

\* C5: from_code ends in exactly one of Ok with a whole DeckList,
\* DecodingError and InvalidDeckInput, and in nothing else. DecodingError
\* is returned exactly when the Base64 stage fails, whatever the JSON
\* stage would have said; InvalidDeckInput exactly when the Base64 stage
\* succeeds and the JSON stage fails; Ok exactly when both succeed, with
\* the DeckList the JSON stage gave, whole: a name, and cards that each
\* have a name. A failure carries no DeckList.
DecodeOutcomes ==
    op = "from_code" =>
        /\ ret.kind \in {"Ok", "DecodingError", "InvalidDeckInput"}
        /\ ret.kind = "DecodingError" <=> ~B64Decode(arg).ok
        /\ ret.kind = "InvalidDeckInput" <=>
              (B64Decode(arg).ok /\ ~from_slice(B64Decode(arg).val).ok)
        /\ ret.kind = "Ok" <=>
              (B64Decode(arg).ok /\ from_slice(B64Decode(arg).val).ok)
        /\ ret.kind = "Ok" =>
              /\ ret.val = from_slice(B64Decode(arg).val).val
              /\ DOMAIN ret.val = {"name", "cards"}
              /\ ValidUtf8(ret.val.name)
              /\ \A i \in 1..Len(ret.val.cards) :
                    /\ DOMAIN ret.val.cards[i] = {"name"}
                    /\ ValidUtf8(ret.val.cards[i].name)
        /\ ret.kind # "Ok" => ret.val = <<>>

\* "e30", valid Base64 of {}, has passed the first stage and failed the
\* second.
DecodeOutcomesWitness ==
    /\ op = "from_code"
    /\ arg = <<101, 51, 48>>
    /\ ret.kind = "InvalidDeckInput"

\* The document without the keys the structs do not know.
Strip(d) ==
    [d EXCEPT !.extra = "none", !.extraAt = 0,
              !.cardsM = IF @ \in {"Cards:[x+]", "Cards:[+x]"}
                         THEN "Cards:[x]" ELSE @]

HasUnknownKey(d) == Strip(d) # d

\* C10: unknown keys are tolerated. A deck object with keys other than
\* "Name", "Cards" and "CardDefId" added, at the top or inside a card, is
\* accepted and decodes to the DeckList the object without them decodes
\* to; a key that differs from a required one in case only is such an
\* unknown key and does not supply the field.
UnknownKeysTolerated ==
    (op = "from_code" /\ doc.top = "obj") =>
        /\ (GoodDoc(doc) /\ HasUnknownKey(doc)) =>
              /\ ret.kind = "Ok"
              /\ ret = from_code(B64Encode(Render(Strip(doc))))
        /\ (\/ doc.nameM \in {"name:a", "NAME:a"}
            \/ doc.cardsM \in {"cards:[]", "Cards:[lower]"})
              => ret.kind = "InvalidDeckInput"

\* A deck object with a nested object under an unknown key between its two
\* members, and an unknown key inside its card, has been accepted.
UnknownKeysToleratedWitness ==
    /\ op = "from_code"
    /\ doc = [top |-> "obj", nameM |-> "Name:esc", cardsM |-> "Cards:[x+]",
              swap |-> FALSE, extraAt |-> 2, extra |-> "Extra:deck"]
    /\ ret = Ok([name |-> <<195, 169, 10, 240, 159, 131, 143>>,
                 cards |-> << [name |-> <<120>>] >>])

=============================================================================
